---- MODULE Spec2Model ----
(***************************************************************************)
(* Modified Preorder Tree Traversal maintenance of django-mptt:            *)
(* mptt/signals.py (the pre_save and pre_delete receivers) and the query   *)
(* helpers of mptt/models.py, over a table of tree nodes.                  *)
(*                                                                         *)
(* The table is the variable store: a function from the primary keys of    *)
(* the stored rows to their columns (parent, lft, rght, tree_id, level).   *)
(* Every action is one call of a receiver followed by the write (or        *)
(* removal) of the row that Django performs right after the receiver.      *)
(* The model instance handed to a receiver, and its parent object, carry   *)
(* the column values of their stored rows at the time of the call.         *)
(***************************************************************************)
EXTENDS Integers, FiniteSets, Sequences, TLC

\* Bounds of the model.
MaxNodes == 4       \* rows stored at the same time
MaxOps == 7         \* receiver calls in one run

None == 0
Pks == 1..MaxNodes

VARIABLES
    store,  \* the table: [stored pks -> row]
    last,   \* what the last receiver call was and how it ended
    nops,   \* the number of receiver calls made so far
    held,   \* a parent object a caller loaded and still holds in memory
    run     \* two operations of two writers in progress, update by update

vars == <<store, last, nops, held, run>>

Row(parent, lft, rght, tree_id, level) ==
    [parent |-> parent, lft |-> lft, rght |-> rght,
     tree_id |-> tree_id, level |-> level]

Last(op, node, parent, err) ==
    [op |-> op, node |-> node, parent |-> parent, err |-> err]

Stored == DOMAIN store

\* An object in memory: the primary key and the fields it was loaded with.
Object(pk, row) == [pk |-> pk, row |-> row]

\* No object is held.
NoObject == Object(None, Row(None, None, None, None, None))

\* One more receiver call is made; no receiver refreshes or changes an
\* object other than its own instance.
Tick == nops < MaxOps /\ nops' = nops + 1 /\ held' = held /\ run' = run

SetMax(S) == CHOOSE x \in S : \A y \in S : y <= x
SetMin(S) == CHOOSE x \in S : \A y \in S : x <= y

\* The primary key the table gives a new row: the smallest one not in use.
NewPk(s) == SetMin(Pks \ DOMAIN s)

(***************************************************************************)
(* TreeManager (mptt/managers.py): the bulk updates the receivers call,    *)
(* as sections 4.1, 4.4 and 4.5 of the specification describe them.        *)
(***************************************************************************)
\* create_space: add width to every lft and rght above target_right.
create_space(s, width, target_right, tree_id) ==
    [x \in DOMAIN s |->
        IF s[x].tree_id = tree_id
        THEN [s[x] EXCEPT
                !.lft = IF @ > target_right THEN @ + width ELSE @,
                !.rght = IF @ > target_right THEN @ + width ELSE @]
        ELSE s[x]]

\* close_gap: subtract width from every lft and rght above target_right.
close_gap(s, width, target_right, tree_id) ==
    [x \in DOMAIN s |->
        IF s[x].tree_id = tree_id
        THEN [s[x] EXCEPT
                !.lft = IF @ > target_right THEN @ - width ELSE @,
                !.rght = IF @ > target_right THEN @ - width ELSE @]
        ELSE s[x]]

\* get_next_tree_id: one more than the largest tree_id in use, 1 if none.
get_next_tree_id(s) ==
    IF DOMAIN s = {} THEN 1
    ELSE SetMax({s[x].tree_id : x \in DOMAIN s}) + 1

\* Django's write of the instance's row after pre_save returned.
save(s, pk, row) ==
    IF pk \in DOMAIN s THEN [s EXCEPT ![pk] = row] ELSE s @@ (pk :> row)

\* Django's removal of the instance's row after pre_delete returned.
delete_row(s, pk) == [x \in DOMAIN s \ {pk} |-> s[x]]

\* The rows of the subtree an instance's lft..rght spans in its tree.
InSpan(r, inst) ==
    /\ r.tree_id = inst.tree_id
    /\ r.lft >= inst.lft
    /\ r.lft <= inst.rght

\* make_root_node: the instance's subtree becomes a tree of its own.
make_root_node(s, inst) ==
    LET new_tree_id == get_next_tree_id(s)
        width == inst.rght - inst.lft + 1
        shift == 1 - inst.lft
        moved == [x \in DOMAIN s |->
                    IF InSpan(s[x], inst)
                    THEN [s[x] EXCEPT !.tree_id = new_tree_id,
                                      !.lft = @ + shift,
                                      !.rght = @ + shift,
                                      !.level = @ - inst.level]
                    ELSE s[x]]
    IN  close_gap(moved, width, inst.rght, inst.tree_id)

\* make_child_node: a whole tree is spliced in as the last child of parent.
make_child_node(s, inst, parent) ==
    LET width == inst.rght - inst.lft + 1
        target_right == parent.rght - 1
        shift == target_right + 1 - inst.lft
        level_shift == parent.level + 1 - inst.level
        opened == create_space(s, width, target_right, parent.tree_id)
    IN  [x \in DOMAIN s |->
            IF s[x].tree_id = inst.tree_id
            THEN [opened[x] EXCEPT !.tree_id = parent.tree_id,
                                   !.lft = s[x].lft + shift,
                                   !.rght = s[x].rght + shift,
                                   !.level = @ + level_shift]
            ELSE opened[x]]

\* move_to_new_tree: the instance's subtree is cut out of its tree and
\* spliced in as the last child of a parent in another tree.
move_to_new_tree(s, inst, parent) ==
    LET width == inst.rght - inst.lft + 1
        target_right == parent.rght - 1
        shift == target_right + 1 - inst.lft
        level_shift == parent.level + 1 - inst.level
        opened == create_space(s, width, target_right, parent.tree_id)
        moved == [x \in DOMAIN s |->
                    IF InSpan(s[x], inst)
                    THEN [opened[x] EXCEPT !.tree_id = parent.tree_id,
                                           !.lft = @ + shift,
                                           !.rght = @ + shift,
                                           !.level = @ + level_shift]
                    ELSE opened[x]]
    IN  close_gap(moved, width, inst.rght, inst.tree_id)

\* The instance's own fields after make_root_node.
made_root_row(s, inst) ==
    Row(None, 1, inst.rght - inst.lft + 1, get_next_tree_id(s), 0)

\* The instance's own fields after make_child_node and move_to_new_tree.
made_child_row(inst, p, parent) ==
    Row(p, parent.rght, parent.rght + (inst.rght - inst.lft),
        parent.tree_id, parent.level + 1)

(***************************************************************************)
(* pre_save, new instance (signals.py 31-47).                              *)
(***************************************************************************)
\* The row a new child of parent gets (35-41).
new_child_row(p, parent) ==
    LET target_right == parent.rght - 1
    IN  Row(p, target_right + 1, target_right + 2,
            parent.tree_id, parent.level + 1)

\* The table after a new child of p was saved (34-41 and the insert).
pre_save_new_child(s, p) ==
    LET parent == s[p]
        target_right == parent.rght - 1
        opened == create_space(s, 2, target_right, parent.tree_id)
    IN  save(opened, NewPk(s), new_child_row(p, parent))

\* A slip that would make C10 fail: the tree_id of the last tree is taken
\* instead of a new one.
new_root_row_in_last_tree(s) ==
    Row(None, 1, 2,
        IF DOMAIN s = {} THEN 1 ELSE get_next_tree_id(s) - 1, 0)

\* The row a new root gets (43-47).
new_root_row(s) == Row(None, 1, 2, get_next_tree_id(s), 0)

PreSaveNewChild(p) ==
    /\ Tick
    /\ p \in Stored
    /\ Cardinality(Stored) < MaxNodes
    /\ store' = pre_save_new_child(store, p)
    /\ last' = Last("new_child", NewPk(store), p, "none")

\* 30-41 with the parent attribute set to an object loaded earlier: the
\* receiver reads rght, tree_id and level from the object, not the table.
pre_save_new_child_held(s, p, parent) ==
    LET target_right == parent.rght - 1
        opened == create_space(s, 2, target_right, parent.tree_id)
    IN  save(opened, NewPk(s), new_child_row(p, parent))

\* A caller loads the node p and keeps the object.
LoadParent(p) ==
    /\ nops < MaxOps
    /\ nops' = nops + 1
    /\ p \in Stored
    /\ held' = Object(p, store[p])
    /\ UNCHANGED <<store, last, run>>

\* A new instance is saved whose parent attribute is the held object.
PreSaveNewChildHeld ==
    /\ Tick
    /\ held.pk \in Stored
    /\ Cardinality(Stored) < MaxNodes
    /\ store' = pre_save_new_child_held(store, held.pk, held.row)
    /\ last' = Last("new_child_held", NewPk(store), held.pk, "none")

PreSaveNewRoot ==
    /\ Tick
    /\ Cardinality(Stored) < MaxNodes
    /\ store' = save(store, NewPk(store), new_root_row(store))
    /\ last' = Last("new_root", NewPk(store), None, "none")

(***************************************************************************)
(* pre_save, existing instance (signals.py 48-143).                        *)
(* The instance is the stored row of n with its parent attribute set to p; *)
(* old_parent is read back from the table (52-53).                         *)
(***************************************************************************)
\* 84-97: the level of every row whose lft lies in the moved span.
level_change_query(s, level_change, node_left, node_right, tree_id) ==
    [x \in DOMAIN s |->
        IF /\ s[x].lft >= node_left
           /\ s[x].lft <= node_right
           /\ s[x].tree_id = tree_id
        THEN [s[x] EXCEPT !.level = @ - level_change]
        ELSE s[x]]

\* One CASE expression of move_subtree_query (101-106, 107-112).
case_when(v, lo1, hi1, d1, lo2, hi2, d2) ==
    IF v >= lo1 /\ v <= hi1 THEN v + d1
    ELSE IF v >= lo2 /\ v <= hi2 THEN v + d2
    ELSE v

\* A slip that would make C15 fail: the UPDATE of 99-118 without the WHERE
\* clause of line 113 rewrites the rows of every tree.
move_subtree_query_all_trees(s, node_left, node_right, left_right_change, left_boundary, right_boundary, gap_size, tree_id) ==
    [x \in DOMAIN s |->
        [s[x] EXCEPT
            !.lft = case_when(@, node_left, node_right, left_right_change,
                              left_boundary, right_boundary, gap_size),
            !.rght = case_when(@, node_left, node_right, left_right_change,
                               left_boundary, right_boundary, gap_size)]]

\* 99-118, with the parameters of 131-136.
move_subtree_query(s, node_left, node_right, left_right_change, left_boundary, right_boundary, gap_size, tree_id) ==
    [x \in DOMAIN s |->
        IF s[x].tree_id = tree_id
        THEN [s[x] EXCEPT
                !.lft = case_when(@, node_left, node_right, left_right_change,
                                  left_boundary, right_boundary, gap_size),
                !.rght = case_when(@, node_left, node_right, left_right_change,
                                   left_boundary, right_boundary, gap_size)]
        ELSE s[x]]

\* A slip that would make C17 fail: with the upper comparison of line 75
\* made against the parent's rght, a childless node is accepted as its own
\* parent.
invalid_parent_by_right(inst, parent) ==
    inst.lft <= parent.lft /\ parent.rght < inst.rght

\* 73-75: the validity check of the new parent.
invalid_parent(inst, parent) ==
    inst.lft <= parent.lft /\ parent.lft <= inst.rght

\* 94-95.
level_change_of(inst, parent) == inst.level - parent.level - 1

\* 120-123: where the moved node is put.
new_left_of(inst, parent) ==
    parent.rght - (inst.rght - inst.lft + 1)

new_right_of(inst, parent) == parent.rght - 1

\* 82-83: whether the level query runs (and level_change gets a value).
levels_differ(parent, old_parent) == parent.level # old_parent.level

\* 78-136: the table after the bulk updates of an in-tree move.
move_in_tree_updates(s, inst, parent, old_parent) ==
    LET tree_id == inst.tree_id
        node_left == inst.lft
        node_right == inst.rght
        releveled ==
            IF levels_differ(parent, old_parent)
            THEN level_change_query(s, level_change_of(inst, parent),
                                    node_left, node_right, tree_id)
            ELSE s
        parent_right == parent.rght
        subtree_width == node_right - node_left + 1
        new_left == new_left_of(inst, parent)
        new_right == new_right_of(inst, parent)
        left_boundary == IF node_left < new_left THEN node_left ELSE new_left
        right_boundary == IF node_right > new_right THEN node_right ELSE new_right
        left_right_change == new_left - node_left
        gap_size == IF left_right_change > 0 THEN -subtree_width
                    ELSE subtree_width
    IN  move_subtree_query(releveled, node_left, node_right, left_right_change,
                           left_boundary, right_boundary, gap_size, tree_id)

\* 140-143: the instance's own fields, as written by the save that follows.
moved_row(inst, p, parent) ==
    Row(p, new_left_of(inst, parent), new_right_of(inst, parent),
        inst.tree_id, inst.level - level_change_of(inst, parent))

\* A slip that would make C9 fail: without the comparison of line 54 a save
\* with the stored parent runs the in-tree move towards that parent.
pre_save_same_parent_always_moves(s, n) ==
    IF s[n].parent = None THEN s
    ELSE move_in_tree_updates(s, s[n], s[s[n].parent], s[s[n].parent])

\* 52-54: parent = old_parent, so the body of the if is skipped and no
\* query is executed.
pre_save_same_parent(s, n) == s

SaveSameParent(n) ==
    /\ Tick
    /\ n \in Stored
    /\ store' = save(pre_save_same_parent(store, n), n, store[n])
    /\ last' = Last("save_same_parent", n, store[n].parent, "none")

\* 57-59: the parent was removed.
MakeRootNode(n) ==
    /\ Tick
    /\ n \in Stored
    /\ store[n].parent # None
    /\ store' = save(make_root_node(store, store[n]), n,
                     made_root_row(store, store[n]))
    /\ last' = Last("make_root_node", n, None, "none")

\* 60-63: a root was given a parent.
MakeChildNode(n, p) ==
    /\ Tick
    /\ n \in Stored /\ p \in Stored
    /\ store[n].parent = None
    /\ store' = save(make_child_node(store, store[n], store[p]), n,
                     made_child_row(store[n], p, store[p]))
    /\ last' = Last("make_child_node", n, p, "none")

\* 64-68: the new parent is in a different tree.
MoveToNewTree(n, p) ==
    /\ Tick
    /\ n \in Stored /\ p \in Stored
    /\ store[n].parent # None
    /\ p # store[n].parent
    /\ store[p].tree_id # store[n].tree_id
    /\ store' = save(move_to_new_tree(store, store[n], store[p]), n,
                     made_child_row(store[n], p, store[p]))
    /\ last' = Last("move_to_new_tree", n, p, "none")

\* 69-143 is reached: the new parent is another node of the same tree.
InTreeBranch(n, p) ==
    /\ n \in Stored /\ p \in Stored
    /\ store[n].parent # None
    /\ p # store[n].parent
    /\ store[p].tree_id = store[n].tree_id

\* 73-76: InvalidParent is raised, nothing was executed.
MoveInTreeInvalid(n, p) ==
    /\ Tick
    /\ InTreeBranch(n, p)
    /\ invalid_parent(store[n], store[p])
    /\ store' = store
    /\ last' = Last("move_in_tree", n, p, "InvalidParent")

\* 78-143 run to the end and the instance is saved.
MoveInTree(n, p) ==
    /\ Tick
    /\ InTreeBranch(n, p)
    /\ ~invalid_parent(store[n], store[p])
    /\ levels_differ(store[p], store[store[n].parent])
    /\ store' = save(move_in_tree_updates(store, store[n], store[p],
                                          store[store[n].parent]),
                     n, moved_row(store[n], p, store[p]))
    /\ last' = Last("move_in_tree", n, p, "none")

\* 82-83 false: level_change was never assigned, so 142-143 raise
\* UnboundLocalError after the bulk update of 131-136 was executed. The save
\* is abandoned; the executed update is kept or rolled back by the caller's
\* transaction handling.
MoveInTreeUnbound(n, p) ==
    /\ Tick
    /\ InTreeBranch(n, p)
    /\ ~invalid_parent(store[n], store[p])
    /\ ~levels_differ(store[p], store[store[n].parent])
    /\ \E kept \in BOOLEAN :
         LET inst == store[n]
             s2 == IF kept
                   THEN move_in_tree_updates(store, inst, store[p],
                                             store[inst.parent])
                   ELSE store
         IN  /\ store' = s2
             /\ last' = Last(IF kept THEN "move_in_tree_kept"
                             ELSE "move_in_tree", n, p, "UnboundLocalError")

(***************************************************************************)
(* pre_delete (signals.py 151-162) and the removal of the row.             *)
(***************************************************************************)
pre_delete(s, inst) ==
    LET tree_width == inst.rght - inst.lft + 1
        target_right == inst.rght
    IN  close_gap(s, tree_width, target_right, inst.tree_id)

HasChildren(s, n) == \E x \in DOMAIN s : s[x].parent = n

PreDelete(n) ==
    /\ Tick
    /\ n \in Stored
    /\ ~HasChildren(store, n)
    /\ store' = delete_row(pre_delete(store, store[n]), n)
    /\ last' = Last("delete", n, store[n].parent, "none")

Init ==
    /\ store = <<>>
    /\ last = Last("init", None, None, "none")
    /\ nops = 0
    /\ held = NoObject
    /\ run = [base |-> <<>>, ops |-> <<>>, prog |-> <<>>, pc |-> <<>>]

Next ==
    \/ PreSaveNewRoot
    \/ \E p \in Pks : PreSaveNewChild(p)
    \/ \E n \in Pks : PreDelete(n)
    \/ \E n \in Pks : SaveSameParent(n)
    \/ \E n \in Pks : MakeRootNode(n)
    \/ \E n, p \in Pks : MakeChildNode(n, p)
    \/ \E n, p \in Pks : MoveToNewTree(n, p)
    \/ \E n, p \in Pks : MoveInTreeInvalid(n, p)
    \/ \E n, p \in Pks : MoveInTree(n, p)
    \/ \E n, p \in Pks : MoveInTreeUnbound(n, p)

Spec == Init /\ [][Next]_vars

\* Creations, deletions, saves and moves inside one tree: the receivers'
\* own code, without the TreeManager's re-parenting methods.
NextInTree ==
    \/ PreSaveNewRoot
    \/ \E p \in Pks : PreSaveNewChild(p)
    \/ \E n \in Pks : PreDelete(n)
    \/ \E n \in Pks : SaveSameParent(n)
    \/ \E n, p \in Pks : MoveInTreeInvalid(n, p)
    \/ \E n, p \in Pks : MoveInTree(n, p)
    \/ \E n, p \in Pks : MoveInTreeUnbound(n, p)

SpecInTree == Init /\ [][NextInTree]_vars

\* Creations and deletions, with callers that keep a loaded parent object
\* across operations.
NextHeld ==
    \/ PreSaveNewRoot
    \/ \E p \in Pks : PreSaveNewChild(p)
    \/ \E n \in Pks : PreDelete(n)
    \/ \E p \in Pks : LoadParent(p)
    \/ PreSaveNewChildHeld

SpecHeld == Init /\ [][NextHeld]_vars

(***************************************************************************)
(* The tree as the parent references give it, and as lft/rght encode it.   *)
(***************************************************************************)
RECURSIVE ParentChain(_, _, _)
\* The nodes reached from b by following parent at most k times (k >= 1
\* steps are counted, b itself is not in the set unless a chain returns).
ParentChain(s, b, k) ==
    IF k = 0 \/ s[b].parent = None \/ s[b].parent \notin DOMAIN s THEN {}
    ELSE {s[b].parent} \cup ParentChain(s, s[b].parent, k - 1)

IsAncestor(s, a, b) == a \in ParentChain(s, b, Cardinality(DOMAIN s))

DescendantsByParent(s, a) == {b \in DOMAIN s : IsAncestor(s, a, b)}

Encloses(s, a, b) == s[a].lft < s[b].lft /\ s[a].rght > s[b].rght

TreeIds(s) == {s[x].tree_id : x \in DOMAIN s}

NodesOf(s, t) == {x \in DOMAIN s : s[x].tree_id = t}

EdgeValues(s, t) ==
    {s[x].lft : x \in NodesOf(s, t)} \cup {s[x].rght : x \in NodesOf(s, t)}

\* lft and rght of the tree's n rows are 1..2n, each once.
Dense(s, t) ==
    /\ EdgeValues(s, t) = 1..(2 * Cardinality(NodesOf(s, t)))
    /\ \A x, y \in NodesOf(s, t) :
          /\ s[x].lft # s[x].rght
          /\ x # y => s[x].lft # s[y].lft /\ s[x].rght # s[y].rght

\* models.py 115 (the division of two ints rounds down).
get_descendant_count(inst) == (inst.rght - inst.lft - 1) \div 2

(***************************************************************************)
(* Queries (models.py).                                                    *)
(***************************************************************************)
\* order_by(left_attr): the rows of S as a sequence with ascending lft
\* (descending when desc).
OrderByLft(s, S, desc) ==
    CHOOSE q \in [1..Cardinality(S) -> S] :
        /\ \A i, j \in 1..Cardinality(S) : i # j => q[i] # q[j]
        /\ \A i, j \in 1..Cardinality(S) :
              i < j => IF desc THEN s[q[i]].lft >= s[q[j]].lft
                       ELSE s[q[i]].lft <= s[q[j]].lft

\* models.py 96-103.
get_descendants(s, n, include_self) ==
    LET inst == s[n]
        found == {x \in DOMAIN s :
                    /\ s[x].tree_id = inst.tree_id
                    /\ IF include_self
                       THEN s[x].lft >= inst.lft /\ s[x].lft <= inst.rght
                       ELSE s[x].lft > inst.lft /\ s[x].lft < inst.rght}
    IN  OrderByLft(s, found, FALSE)

\* models.py 73-80.
get_ancestors(s, n, ascending) ==
    LET inst == s[n]
        found == {x \in DOMAIN s :
                    /\ s[x].lft < inst.lft
                    /\ s[x].rght > inst.rght
                    /\ s[x].tree_id = inst.tree_id}
    IN  IF inst.parent = None THEN <<>>
        ELSE OrderByLft(s, found, ascending)

\* The elements of a sequence.
Range(q) == {q[i] : i \in DOMAIN q}

RECURSIVE ChainUp(_, _, _)
\* The parent, the parent's parent, ... of b, at most k of them.
ChainUp(s, b, k) ==
    IF k = 0 \/ s[b].parent = None \/ s[b].parent \notin DOMAIN s THEN <<>>
    ELSE <<s[b].parent>> \o ChainUp(s, s[b].parent, k - 1)

\* A sequence in the opposite order.
Reverse(q) == [i \in 1..Len(q) |-> q[Len(q) + 1 - i]]

(***************************************************************************)
(* Deletion of a node with descendants. Django deletes the rows that refer *)
(* to the instance through parent along with it: it collects the objects   *)
(* of the subtree, sends pre_delete for each collected object, and removes  *)
(* the rows. Every receiver call reads the lft/rght its object was loaded   *)
(* with (signals.py 158-160).                                              *)
(***************************************************************************)
\* The orders in which the objects of S can be processed.
Perms(S) ==
    {q \in [1..Cardinality(S) -> S] :
        \A i, j \in 1..Cardinality(S) : i # j => q[i] # q[j]}

RECURSIVE pre_delete_each(_, _, _, _)
\* The table after pre_delete ran for the objects order[i..] as they were
\* loaded from objs.
pre_delete_each(s, objs, order, i) ==
    IF i > Len(order) THEN s
    ELSE pre_delete_each(pre_delete(s, objs[order[i]]), objs, order, i + 1)

\* Every sequence of at most MaxNodes primary keys.
Orders == UNION {[1..k -> Pks] : k \in 1..MaxNodes}

Subtree(s, n) == {n} \cup DescendantsByParent(s, n)

CascadeDelete(n, order) ==
    /\ Tick
    /\ n \in Stored
    /\ HasChildren(store, n)
    /\ order \in Perms(Subtree(store, n))
    /\ store' = [x \in Stored \ Subtree(store, n) |->
                    pre_delete_each(store, store, order, 1)[x]]
    /\ last' = Last("cascade_delete", n, store[n].parent, "none")

NextCascade ==
    \/ PreSaveNewRoot
    \/ \E p \in Pks : PreSaveNewChild(p)
    \/ \E n \in Pks : PreDelete(n)
    \/ \E n \in Pks : \E order \in Orders : CascadeDelete(n, order)

SpecCascade == Init /\ [][NextCascade]_vars

(***************************************************************************)
(* Two writers, each running one receiver call on a tree of its own, with  *)
(* no coordination: the queries a call executes (and the write or removal  *)
(* of the instance's row that follows it) are the steps, and the steps of  *)
(* the two calls are taken in any order. Each call computes the parameters *)
(* of its queries from the objects it was handed when it started.          *)
(***************************************************************************)
\* An operation a writer asks for.
Op(kind, node, parent) == [kind |-> kind, node |-> node, parent |-> parent]

\* One query (or row write) with its parameters.
Step(kind, tree_id, args, pk, row) ==
    [kind |-> kind, tree_id |-> tree_id, args |-> args, pk |-> pk, row |-> row]

NoRow == Row(None, None, None, None, None)

\* 34-41 and the insert of the new row.
new_child_steps(p, parent) ==
    LET target_right == parent.rght - 1
    IN  << Step("create_space", parent.tree_id, <<2, target_right>>, None, NoRow),
           Step("insert", parent.tree_id, <<>>, None, new_child_row(p, parent)) >>

\* 158-162 and the removal of the row.
pre_delete_steps(n, inst) ==
    LET tree_width == inst.rght - inst.lft + 1
        target_right == inst.rght
    IN  << Step("close_gap", inst.tree_id, <<tree_width, target_right>>, None, NoRow),
           Step("delete_row", inst.tree_id, <<>>, n, NoRow) >>

\* 73-143 and the write of the instance's row; where 142-143 raise, the
\* queries executed before stay executed and no row is written.
move_in_tree_steps(n, inst, p, parent, old_parent) ==
    LET tree_id == inst.tree_id
        node_left == inst.lft
        node_right == inst.rght
        subtree_width == node_right - node_left + 1
        new_left == new_left_of(inst, parent)
        new_right == new_right_of(inst, parent)
        left_boundary == IF node_left < new_left THEN node_left ELSE new_left
        right_boundary == IF node_right > new_right THEN node_right ELSE new_right
        left_right_change == new_left - node_left
        gap_size == IF left_right_change > 0 THEN -subtree_width
                    ELSE subtree_width
        level_step == Step("level_change_query", tree_id,
                           <<level_change_of(inst, parent), node_left, node_right>>,
                           None, NoRow)
        move_step == Step("move_subtree_query", tree_id,
                          <<node_left, node_right, left_right_change,
                            left_boundary, right_boundary, gap_size>>,
                          None, NoRow)
        save_step == Step("save", tree_id, <<>>, n, moved_row(inst, p, parent))
    IN  IF invalid_parent(inst, parent) THEN <<>>
        ELSE IF levels_differ(parent, old_parent)
             THEN <<level_step, move_step, save_step>>
        ELSE <<move_step>>

\* The steps of an operation, from the objects loaded from table s.
steps_of(s, op) ==
    IF op.kind = "new_child" THEN new_child_steps(op.parent, s[op.parent])
    ELSE IF op.kind = "delete" THEN pre_delete_steps(op.node, s[op.node])
    ELSE move_in_tree_steps(op.node, s[op.node], op.parent, s[op.parent],
                            s[s[op.node].parent])

\* The table after one step was executed.
execute(s, st) ==
    LET a == st.args
    IN  CASE st.kind = "create_space" -> create_space(s, a[1], a[2], st.tree_id)
          [] st.kind = "close_gap" -> close_gap(s, a[1], a[2], st.tree_id)
          [] st.kind = "insert" -> save(s, NewPk(s), st.row)
          [] st.kind = "delete_row" -> delete_row(s, st.pk)
          [] st.kind = "level_change_query" ->
                level_change_query(s, a[1], a[2], a[3], st.tree_id)
          [] st.kind = "move_subtree_query" ->
                move_subtree_query(s, a[1], a[2], a[3], a[4], a[5], a[6],
                                   st.tree_id)
          [] st.kind = "save" -> save(s, st.pk, st.row)

\* The table after the whole receiver call of an operation, run alone.
run_alone(s, op) ==
    IF op.kind = "new_child" THEN pre_save_new_child(s, op.parent)
    ELSE IF op.kind = "delete"
         THEN delete_row(pre_delete(s, s[op.node]), op.node)
    ELSE LET inst == s[op.node]
             parent == s[op.parent]
             old_parent == s[inst.parent]
             updated == move_in_tree_updates(s, inst, parent, old_parent)
         IN  IF invalid_parent(inst, parent) THEN s
             ELSE IF levels_differ(parent, old_parent)
                  THEN save(updated, op.node, moved_row(inst, op.parent, parent))
             ELSE updated

\* The tree an operation acts on.
tree_of(s, op) ==
    IF op.kind = "new_child" THEN s[op.parent].tree_id
    ELSE s[op.node].tree_id

\* The operations a writer can ask for in table s.
OpsOn(s) ==
    {Op("new_child", None, p) : p \in DOMAIN s}
        \cup {Op("delete", n, None) : n \in {x \in DOMAIN s : ~HasChildren(s, x)}}
        \cup {Op("move", n, p) : n \in {x \in DOMAIN s : s[x].parent # None},
                                 p \in DOMAIN s}

Idle == run.ops = <<>>

\* Two writers start one operation each, on different trees.
Begin(op1, op2) ==
    /\ Idle
    /\ op1 \in OpsOn(store) /\ op2 \in OpsOn(store)
    /\ \A op \in {op1, op2} :
          op.kind = "move" =>
              /\ op.parent # store[op.node].parent
              /\ store[op.parent].tree_id = store[op.node].tree_id
    /\ tree_of(store, op1) # tree_of(store, op2)
    /\ Cardinality(Stored)
          + Cardinality({i \in 1..2 : <<op1, op2>>[i].kind = "new_child"})
              <= MaxNodes
    /\ run' = [base |-> store, ops |-> <<op1, op2>>,
               prog |-> <<steps_of(store, op1), steps_of(store, op2)>>,
               pc |-> <<1, 1>>]
    /\ last' = Last("begin", None, None, "none")
    /\ UNCHANGED <<store, nops, held>>

\* Writer w executes its next step.
WriterStep(w) ==
    /\ ~Idle
    /\ run.pc[w] <= Len(run.prog[w])
    /\ store' = execute(store, run.prog[w][run.pc[w]])
    /\ run' = [run EXCEPT !.pc[w] = @ + 1]
    /\ last' = Last("writer_step", w, None, "none")
    /\ UNCHANGED <<nops, held>>

\* The tables are set up by single calls; then the two writers run.
SetUpNewRoot == Idle /\ PreSaveNewRoot

SetUpNewChild(p) == Idle /\ PreSaveNewChild(p)

SetUpDelete(n) == Idle /\ PreDelete(n)

AllOps ==
    {Op("new_child", None, p) : p \in Pks}
        \cup {Op("delete", n, None) : n \in Pks}
        \cup {Op("move", n, p) : n \in Pks, p \in Pks}

NextWriters ==
    \/ SetUpNewRoot
    \/ \E p \in Pks : SetUpNewChild(p)
    \/ \E n \in Pks : SetUpDelete(n)
    \/ \E op1, op2 \in AllOps : Begin(op1, op2)
    \/ \E w \in 1..2 : WriterStep(w)

SpecWriters == Init /\ [][NextWriters]_vars

\* Both writers have executed all their steps.
RunDone ==
    /\ ~Idle
    /\ \A w \in 1..2 : run.pc[w] > Len(run.prog[w])

(***************************************************************************)
(* Claims.                                                                 *)
(***************************************************************************)
\* C1: after every completed operation, in every tree_id with n stored
\* nodes the lft and rght values are exactly 1..2n, each occurring once.
C1_EdgesAreOneToTwoN == \A t \in TreeIds(store) : Dense(store, t)

\* C2: after every completed operation, for stored A and B of one tree_id,
\* A is reached from B through parent references iff A.lft < B.lft and
\* A.rght > B.rght.
C2_AncestorIffEncloses ==
    \A a, b \in Stored :
        store[a].tree_id = store[b].tree_id =>
            (IsAncestor(store, a, b) <=> Encloses(store, a, b))

\* C3: after every completed operation, descendant_count of every stored
\* node equals the number of stored nodes below it through parent references.
C3_DescendantCount ==
    \A n \in Stored :
        get_descendant_count(store[n])
            = Cardinality(DescendantsByParent(store, n))
\* A call of pre_save for stored node n whose parent attribute was changed
\* to the stored node p has just ended.
Reparented(n, p) ==
    /\ last'.op \in {"make_child_node", "move_to_new_tree",
                     "move_in_tree", "move_in_tree_kept"}
    /\ last'.node = n
    /\ last'.parent = p

\* C4: re-parenting a node to itself or to one of its current descendants
\* ends with InvalidParent and leaves every stored row unchanged, for nodes
\* with and without a parent.
C4_InvalidParentLeavesStore ==
    [][\A n, p \in Stored :
          (Reparented(n, p) /\ (p = n \/ IsAncestor(store, n, p)))
              => (last'.err = "InvalidParent" /\ store' = store)]_vars
\* C5: after an in-tree re-parenting the moved node is the last child of
\* its new parent: its rght is the parent's rght - 1, every other child of
\* the parent lies wholly before its lft, and its width is what it was.
C5_MovedNodeIsLastChild ==
    [][\A n, p \in Stored :
          (Reparented(n, p) /\ last'.op = "move_in_tree"
                            /\ last'.err = "none")
              => /\ store'[n].rght = store'[p].rght - 1
                 /\ \A c \in Stored \ {n} :
                       store'[c].parent = p
                           => /\ store'[c].lft < store'[n].lft
                              /\ store'[c].rght < store'[n].lft
                 /\ store'[n].rght - store'[n].lft
                        = store[n].rght - store[n].lft]_vars

\* C6: after every completed operation a stored node without parent has
\* level 0 and every other stored node has its parent's level plus 1.
C6_LevelIsParentLevelPlusOne ==
    \A n \in Stored :
        IF store[n].parent = None
        THEN store[n].level = 0
        ELSE store[n].level = store[store[n].parent].level + 1
\* A call of pre_save for a new instance with parent p has just ended.
ChildCreated(p) == last'.op = "new_child" /\ last'.parent = p

\* C7: a node created under P with stored (rght = r, tree_id = t, level = l)
\* gets lft = r, rght = r + 1, tree_id = t, level = l + 1, P's rght becomes
\* r + 2 and every child P had lies wholly before the new node's lft; two
\* children created under R(1,2) give C1(2,3), C2(4,5), R(1,6) and
\* descendants(R) = [C1, C2].
C7_NewChildIsLastChild ==
    [][\A p \in Stored :
          ChildCreated(p) =>
              LET c == last'.node
                  r == store[p].rght
              IN  /\ store'[c].lft = r
                  /\ store'[c].rght = r + 1
                  /\ store'[c].tree_id = store[p].tree_id
                  /\ store'[c].level = store[p].level + 1
                  /\ store'[p].rght = r + 2
                  /\ \A k \in Stored :
                        store[k].parent = p
                            => /\ store'[k].lft < store'[c].lft
                               /\ store'[k].rght < store'[c].lft
                  /\ (/\ store = (1 :> Row(None, 1, 4, 1, 0))
                                  @@ (2 :> Row(1, 2, 3, 1, 1))
                      /\ p = 1)
                        => /\ store' = (1 :> Row(None, 1, 6, 1, 0))
                                       @@ (2 :> Row(1, 2, 3, 1, 1))
                                       @@ (3 :> Row(1, 4, 5, 1, 1))
                           /\ get_descendants(store', 1, FALSE) = <<2, 3>>]_vars
\* A call of pre_delete for the stored node n has just ended.
Deleted(n) == last'.op = "delete" /\ last'.node = n

\* v after 2 was subtracted from the values above bound.
MinusTwoAbove(v, bound) == IF v > bound THEN v - 2 ELSE v

\* C8: deleting a childless node subtracts 2 from every lft and rght of its
\* tree above the node's rght and changes nothing else; among the remaining
\* nodes the order by lft and the enclosure relation stay as they were and
\* the values are again 1..2(n-1); R(1,6), C1(2,3), C2(4,5) without C1 is
\* exactly R(1,4), C2(2,3).
C8_DeleteClosesGap ==
    [][\A n \in Stored :
          Deleted(n) =>
              LET t == store[n].tree_id
                  r == store[n].rght
                  rest == Stored \ {n}
              IN  /\ DOMAIN store' = rest
                  /\ \A x \in rest :
                        store'[x] =
                            IF store[x].tree_id = t
                            THEN [store[x] EXCEPT
                                    !.lft = MinusTwoAbove(@, r),
                                    !.rght = MinusTwoAbove(@, r)]
                            ELSE store[x]
                  /\ \A a, b \in rest :
                        store[a].tree_id = t /\ store[b].tree_id = t
                            => /\ (store[a].lft < store[b].lft)
                                    <=> (store'[a].lft < store'[b].lft)
                               /\ Encloses(store, a, b)
                                    <=> Encloses(store', a, b)
                  /\ Dense(store, t) => Dense(store', t)
                  /\ (/\ store = (1 :> Row(None, 1, 6, 1, 0))
                                  @@ (2 :> Row(1, 2, 3, 1, 1))
                                  @@ (3 :> Row(1, 4, 5, 1, 1))
                      /\ n = 2)
                        => store' = (1 :> Row(None, 1, 4, 1, 0))
                                    @@ (3 :> Row(1, 2, 3, 1, 1))]_vars
\* C9: saving an existing node whose parent attribute is its stored parent
\* changes the lft, rght, tree_id and level of no stored node.
C9_SameParentSaveIsNoOp ==
    [][\A n \in Stored :
          (last'.op = "save_same_parent" /\ last'.node = n)
              => store' = store]_vars

\* C9's case: a node that is not the last child of its parent was saved
\* with its parent unchanged.
C9_Witness ==
    /\ last.op = "save_same_parent"
    /\ last.node \in Stored
    /\ store[last.node].parent # None
    /\ store[last.node].rght + 1 < store[store[last.node].parent].rght

\* C10: a node created without parent gets lft 1, rght 2, level 0 and a
\* tree_id above every tree_id in use, and no stored row changes; so it
\* shares its tree_id with no root stored before it.
C10_NewRootGetsFreshTree ==
    [][last'.op = "new_root" =>
          LET c == last'.node
          IN  /\ c \notin Stored
              /\ DOMAIN store' = Stored \cup {c}
              /\ store'[c].parent = None
              /\ store'[c].lft = 1
              /\ store'[c].rght = 2
              /\ store'[c].level = 0
              /\ \A x \in Stored :
                    /\ store'[c].tree_id > store[x].tree_id
                    /\ store'[x] = store[x]]_vars

\* C10's case: a root was created while two other trees were stored.
C10_Witness ==
    /\ last.op = "new_root"
    /\ Cardinality(TreeIds(store)) >= 3
    /\ \E x \in Stored : store[x].parent # None

\* C11: in every reached state, for stored A and B of one tree_id, A is in
\* descendants(B) iff B is in ancestors(A).
C11_DescendantIffAncestor ==
    \A a, b \in Stored :
        store[a].tree_id = store[b].tree_id =>
            (a \in Range(get_descendants(store, b, FALSE))
                <=> b \in Range(get_ancestors(store, a, FALSE)))

\* C12: ancestors(node) is the chain of the node's ancestors, root first
\* and parent last by default, parent first and root last when ascending;
\* it is empty for a node without parent.
C12_AncestorsInOrder ==
    \A n \in Stored :
        LET up == ChainUp(store, n, Cardinality(Stored))
        IN  /\ get_ancestors(store, n, TRUE) = up
            /\ get_ancestors(store, n, FALSE) = Reverse(up)
            /\ store[n].parent = None
                  => get_ancestors(store, n, FALSE) = <<>>
\* C13: re-parenting a node inside its tree to a valid parent whose level
\* equals the old parent's level completes without error, stores the node
\* under the new parent, and leaves the levels of the moved subtree as they
\* were.
C13_EqualLevelMoveCompletes ==
    [][\A n, p \in Stored :
          (/\ Reparented(n, p)
           /\ InTreeBranch(n, p)
           /\ ~invalid_parent(store[n], store[p])
           /\ ~levels_differ(store[p], store[store[n].parent]))
              => /\ last'.err = "none"
                 /\ store'[n].parent = p
                 /\ \A x \in Stored :
                       InSpan(store[x], store[n])
                           => store'[x].level = store[x].level]_vars
\* The in-tree move of n under p has executed its bulk updates (131-136).
MovedInTree(n, p) ==
    /\ Reparented(n, p)
    /\ InTreeBranch(n, p)
    /\ \/ last'.op = "move_in_tree" /\ last'.err = "none"
       \/ last'.op = "move_in_tree_kept"

\* The value v of a row of the moved node's tree after the move of the span
\* [ol, or] to new_left nl, as the claim C14 words it.
Shifted(v, ol, or, nl) ==
    LET width == or - ol + 1
        nr == nl + width - 1
        lb == IF ol < nl THEN ol ELSE nl
        rb == IF or > nr THEN or ELSE nr
    IN  IF v < lb \/ v > rb THEN v
        ELSE IF v >= ol /\ v <= or THEN v + (nl - ol)
        ELSE IF nl > ol THEN v - width
        ELSE v + width

\* C14: an in-tree re-parenting leaves every lft and rght of the tree that
\* lies outside the boundary unchanged, changes every value of the moving
\* subtree by new_left - old_left and every other value inside the boundary
\* by the subtree width with the opposite sign, and leaves the level of
\* every node outside the moving subtree unchanged.
C14_MoveChangesOnlyBoundary ==
    [][\A n, p \in Stored :
          MovedInTree(n, p) =>
              LET ol == store[n].lft
                  or == store[n].rght
                  nl == new_left_of(store[n], store[p])
                  sub == {n} \cup DescendantsByParent(store, n)
              IN  \A x \in Stored :
                      store[x].tree_id = store[n].tree_id =>
                          /\ x \in sub =>
                                /\ store'[x].lft = store[x].lft + (nl - ol)
                                /\ store'[x].rght = store[x].rght + (nl - ol)
                          /\ x \notin sub =>
                                /\ store'[x].lft
                                      = Shifted(store[x].lft, ol, or, nl)
                                /\ store'[x].rght
                                      = Shifted(store[x].rght, ol, or, nl)
                                /\ store'[x].lft # store[x].lft
                                      => store[x].lft \notin ol..or
                                /\ store'[x].rght # store[x].rght
                                      => store[x].rght \notin ol..or
                                /\ store'[x].level = store[x].level]_vars
\* The tree_id a child creation, a deletion or an in-tree move that has
\* just ended acted on; None after every other step.
TreeActedOn ==
    IF last'.op = "new_child" THEN store[last'.parent].tree_id
    ELSE IF last'.op \in {"delete", "move_in_tree", "move_in_tree_kept"}
         THEN store[last'.node].tree_id
    ELSE None

\* C15: child creation, deletion and in-tree re-parenting modify rows of one
\* tree_id only (the parent's for creation, the node's own otherwise): every
\* row with another tree_id is stored unchanged afterwards, and the rows
\* that were changed, inserted or removed carry that tree_id.
C15_OtherTreesUntouched ==
    [][TreeActedOn # None =>
          /\ \A x \in Stored :
                store[x].tree_id # TreeActedOn
                    => x \in DOMAIN store' /\ store'[x] = store[x]
          /\ \A x \in DOMAIN store' :
                (x \notin Stored \/ store'[x] # store[x])
                    => store'[x].tree_id = TreeActedOn]_vars

\* An in-tree move was completed while another tree stored values that lie
\* inside the move's boundary.
C15_Witness ==
    /\ last.op = "move_in_tree" /\ last.err = "none"
    /\ \E x \in Stored :
          /\ store[x].tree_id # store[last.node].tree_id
          /\ store[x].lft <= store[last.node].rght
\* The encoding invariants: dense values, enclosure is ancestry, levels.
EncodingHolds ==
    /\ C1_EdgesAreOneToTwoN
    /\ C2_AncestorIffEncloses
    /\ C6_LevelIsParentLevelPlusOne

\* C17: in every state where the encoding invariants hold, for stored N and
\* P of one tree_id the check N.lft <= P.lft <= N.rght is true iff P is N or
\* a descendant of N; and a re-parenting that starts in such a state is
\* rejected with InvalidParent only for such a P.
C17_CheckRejectsExactlyDescendants ==
    [][EncodingHolds =>
          /\ \A n, p \in Stored :
                store[n].tree_id = store[p].tree_id =>
                    (invalid_parent(store[n], store[p])
                        <=> (p = n \/ IsAncestor(store, n, p)))
          /\ \A n, p \in Stored :
                (Reparented(n, p) /\ InTreeBranch(n, p)
                                  /\ last'.err = "InvalidParent")
                    => (p = n \/ IsAncestor(store, n, p))]_vars

\* A re-parenting under a descendant was rejected in a tree whose encoding
\* is intact.
C17_Witness ==
    /\ EncodingHolds
    /\ last.op = "move_in_tree" /\ last.err = "InvalidParent"
    /\ IsAncestor(store, last.node, last.parent)
    /\ \E q \in Stored :
          /\ store[q].tree_id = store[last.node].tree_id
          /\ store[q].parent # None
          /\ ~invalid_parent(store[last.node], store[q])
\* C16: deleting a node with descendants from a tree whose encoding is
\* intact, pre_delete running once for every object of the subtree with the
\* values it was loaded with, in any order, leaves the remaining m nodes of
\* the tree with lft/rght exactly 1..2m and with the enclosure relation
\* they had.
C16_CascadeDeleteKeepsEncoding ==
    [][(EncodingHolds /\ last'.op = "cascade_delete") =>
          LET t == store[last'.node].tree_id
          IN  /\ NodesOf(store', t) # {} => Dense(store', t)
              /\ \A a, b \in NodesOf(store', t) :
                    Encloses(store', a, b) <=> Encloses(store, a, b)]_vars
\* C18: a child created through a parent object that was loaded before an
\* earlier operation changed the parent's stored lft or rght leaves the
\* values of the parent's tree exactly 1..2n and the new node's interval
\* strictly inside the parent's stored interval.
C18_StaleParentKeepsEncoding ==
    [][(/\ EncodingHolds
        /\ last'.op = "new_child_held"
        /\ last'.node \notin Stored
        /\ \/ held.row.lft # store[held.pk].lft
           \/ held.row.rght # store[held.pk].rght) =>
          LET c == last'.node
              p == held.pk
          IN  /\ Dense(store', store'[p].tree_id)
              /\ store'[c].tree_id = store'[p].tree_id
              /\ store'[p].lft < store'[c].lft
              /\ store'[c].rght < store'[p].rght]_vars
\* C19: when two operations on different tree_ids (child creation, deletion
\* or in-tree re-parenting) were run by two writers with their updates
\* interleaved in any order, the table is what running the two operations
\* one after the other gives, and the encoding invariants hold at the end.
C19_InterleavingIsSequential ==
    RunDone =>
        /\ \/ store = run_alone(run_alone(run.base, run.ops[1]), run.ops[2])
           \/ store = run_alone(run_alone(run.base, run.ops[2]), run.ops[1])
        /\ EncodingHolds
====
